---- MODULE Spec2Model ----
(***************************************************************************)
(* Flaskyll: the YAML page cache (flaskyll/yamlpages.py) and the context   *)
(* and pagination logic of the driver script (scripts/flaskyll.py).        *)
(*                                                                         *)
(* Text is a sequence of one-character strings.  Python dicts are          *)
(* functions whose DOMAIN is the set of keys.                              *)
(*                                                                         *)
(* Spec       the YamlPages collection over a changing file system         *)
(* SpecDoc    parse_page and the cached properties of one YamlPage         *)
(* SpecPager  the page handler and the two pagers over a built context     *)
(***************************************************************************)
EXTENDS Integers, Sequences, FiniteSets, TLC

VARIABLES
    \* ---- the file system under the collection root
    fs,          \* relpath -> [exists, mtime, content]
    clock,       \* time: every change of the file system advances it
    \* ---- YamlPages
    prunning,    \* self.prunning
    first_run,   \* self._first_run
    file_cache,  \* self._file_cache : filepath -> [page, mtime]
    pages,       \* self._pages      : route -> page
    \* ---- one execution of load_pages
    pc,          \* "idle" | "walk"
    dirs,        \* directories os.walk has still to list
    todo,        \* files of the listed directory still to visit
    lastResult,  \* "none" | "ok" | "OSError" : how the last load_pages ended
    \* ---- instrumentation
    nextId,      \* identity of the next YamlPage instance (counts the parses)
    fsChanged,   \* the file system changed since the last load_pages began
    raised,      \* some load_pages has ended with an exception
    \* ---- SpecDoc
    doc,
    \* ---- SpecPager
    pager,
    \* ---- SpecContext, SpecReload, SpecLazy
    site

fsVars == <<fs, clock>>
loaderVars == <<prunning, first_run, file_cache, pages, pc, dirs, todo,
                lastResult, nextId, raised>>
otherVars == <<doc, pager, site>>
vars == <<fs, clock, prunning, first_run, file_cache, pages, pc,
          dirs, todo, lastResult, nextId, fsChanged, raised, doc, pager,
          site>>

(***************************************************************************)
(* Bounds                                                                  *)
(***************************************************************************)
MaxClock == 3
MaxPosts == 4
MaxPerPage == 3
MaxCurLen == 2
MaxSitePosts == 3
MaxBuilds == 2
MaxEdits == 1

(***************************************************************************)
(* Text                                                                    *)
(***************************************************************************)
NL == "\n"

IsSpace(c) == c \in {" ", "\t", NL}

\* unicode.strip
RECURSIVE Strip(_)
Strip(s) ==
    IF s = <<>> THEN s
    ELSE IF IsSpace(Head(s)) THEN Strip(Tail(s))
    ELSE IF IsSpace(s[Len(s)]) THEN Strip(SubSeq(s, 1, Len(s) - 1))
    ELSE s

\* unicode.split(sep) for a one-character separator
RECURSIVE Split(_, _)
Split(s, sep) ==
    IF \E i \in 1..Len(s) : s[i] = sep
    THEN LET i == CHOOSE k \in 1..Len(s) :
                      s[k] = sep /\ \A j \in 1..(k - 1) : s[j] # sep
         IN  <<SubSeq(s, 1, i - 1)>> \o Split(SubSeq(s, i + 1, Len(s)), sep)
    ELSE <<s>>

\* sep.join(lines)
RECURSIVE Join(_, _)
Join(lines, sep) ==
    IF lines = <<>> THEN <<>>
    ELSE IF Len(lines) = 1 THEN lines[1]
    ELSE lines[1] \o <<sep>> \o Join(Tail(lines), sep)

\* str.replace(old, new) for one-character strings
Replace(s, old, new) == [i \in 1..Len(s) |-> IF s[i] = old THEN new ELSE s[i]]

\* str.startswith(prefix)
StartsWith(s, prefix) ==
    Len(prefix) <= Len(s) /\ SubSeq(s, 1, Len(prefix)) = prefix

\* str.startswith(tuple of prefixes)
StartsWithAny(s, prefixes) ==
    \E i \in 1..Len(prefixes) : StartsWith(s, prefixes[i])

Max(S) == CHOOSE x \in S : \A y \in S : y <= x

(***************************************************************************)
(* Paths                                                                   *)
(***************************************************************************)
OsSep == "/"
PosixSep == "/"

\* the last index of character c in s, 0 when absent
LastIndex(s, c) == Max({0} \cup {i \in 1..Len(s) : s[i] = c})

\* os.path.splitext: split at the last dot of the last component, unless
\* that component has nothing but dots before it
SplitExt(p) ==
    LET sepIx == LastIndex(p, OsSep)
        dotIx == LastIndex(p, ".")
    IN  IF dotIx > sepIx /\ \E i \in (sepIx + 1)..(dotIx - 1) : p[i] # "."
        THEN <<SubSeq(p, 1, dotIx - 1), SubSeq(p, dotIx, Len(p))>>
        ELSE <<p, <<>>>>

\* os.path.join(root, name)
PathJoin(root, name) == root \o <<OsSep>> \o name

\* os.path.relpath(filepath, root) for a filepath below root
RelPath(filepath, root) == SubSeq(filepath, Len(root) + 2, Len(filepath))

\* the directory part of a relpath (<<>> is the root itself)
DirOf(f) ==
    LET sepIx == LastIndex(f, OsSep)
    IN  IF sepIx = 0 THEN <<>> ELSE SubSeq(f, 1, sepIx - 1)

(***************************************************************************)
(* The collection's configuration and the files of the model               *)
(***************************************************************************)
Root == <<".">>
Extensions == {<<".", "h">>, <<".", "x">>}
Excludes == << <<"s", "/">> >>

F_ah == <<"a", ".", "h">>
F_ax == <<"a", ".", "x">>
F_sbh == <<"s", "b", ".", "h">>
F_sch == <<"s", "/", "c", ".", "h">>
F_dt == <<"d", ".", "t">>
Files == {F_ah, F_ax, F_sbh, F_sch, F_dt}
Dirs == {DirOf(f) : f \in Files}

\* "k: v", blank line, "x"
Text1 == <<"k", ":", " ", "v", NL, NL, "x">>
\* "j: w", whitespace line, "y", empty line, "z"
Text2 == <<"j", ":", " ", "w", NL, " ", NL, "y", NL, NL, "z">>
Contents == {Text1, Text2}

\* the files the environment creates, rewrites and removes; the others are
\* there throughout
Changing == {F_ah, F_ax, F_sbh}

\* the route and extension load_pages computes for a file of the walk
RouteExt(f) ==
    LET filepath == PathJoin(Root, f)
        relpath == RelPath(filepath, Root)
        split == SplitExt(relpath)
    IN  <<Replace(split[1], OsSep, PosixSep), split[2]>>
Route(f) == RouteExt(f)[1]

\* the filter of load_pages
InScope(f) ==
    /\ ~StartsWithAny(RouteExt(f)[1], Excludes)
    /\ RouteExt(f)[2] \in Extensions

(***************************************************************************)
(* Python dicts                                                            *)
(***************************************************************************)
Put(d, k, v) == [x \in (DOMAIN d) \cup {k} |-> IF x = k THEN v ELSE d[x]]
Del(d, ks) == [x \in (DOMAIN d) \ ks |-> d[x]]
EmptyDict == [x \in {} |-> 0]

(***************************************************************************)
(* parse_page                                                              *)
(***************************************************************************)
\* the number of leading lines itertools.takewhile(unicode.strip, ...) yields
RECURSIVE TakeCount(_)
TakeCount(lines) ==
    IF lines = <<>> \/ Strip(Head(lines)) = <<>> THEN 0
    ELSE 1 + TakeCount(Tail(lines))

\* <<meta, body>>: takewhile consumes the first blank line, the rest is body
ParsePage(content) ==
    LET lines == Split(content, NL)
        n == TakeCount(lines)
    IN  <<Join(SubSeq(lines, 1, n), NL),
          Join(SubSeq(lines, n + 2, Len(lines)), NL)>>

\* YamlPage.__init__ (id stands for the identity of the instance)
YamlPage(id, path, meta, body) ==
    [id |-> id, path |-> path, meta |-> meta, body |-> body]

(***************************************************************************)
(* The file system                                                         *)
(***************************************************************************)
Existing == {f \in Files : fs[f].exists}

\* a new file appears
Create(f, c) ==
    /\ ~fs[f].exists
    /\ clock < MaxClock
    /\ clock' = clock + 1
    /\ fs' = [fs EXCEPT ![f] = [exists |-> TRUE, mtime |-> clock + 1,
                                content |-> c]]
    /\ fsChanged' = TRUE
    /\ UNCHANGED <<loaderVars, otherVars>>

\* an existing file is rewritten (also with its old content: touch)
Modify(f, c) ==
    /\ fs[f].exists
    /\ clock < MaxClock
    /\ clock' = clock + 1
    /\ fs' = [fs EXCEPT ![f] = [exists |-> TRUE, mtime |-> clock + 1,
                                content |-> c]]
    /\ fsChanged' = TRUE
    /\ UNCHANGED <<loaderVars, otherVars>>

\* a file is removed
Delete(f) ==
    /\ fs[f].exists
    /\ clock < MaxClock
    /\ clock' = clock + 1
    /\ fs' = [fs EXCEPT ![f].exists = FALSE]
    /\ fsChanged' = TRUE
    /\ UNCHANGED <<loaderVars, otherVars>>

\* a removed file comes back unchanged, modification time preserved
Restore(f) ==
    /\ ~fs[f].exists
    /\ clock < MaxClock
    /\ clock' = clock + 1
    /\ fs' = [fs EXCEPT ![f].exists = TRUE]
    /\ fsChanged' = TRUE
    /\ UNCHANGED <<loaderVars, otherVars>>

(***************************************************************************)
(* YamlPages                                                               *)
(***************************************************************************)
\* prune_cache: drop the cache entries whose file is gone
PruneCache(cache) ==
    Del(cache, {p \in DOMAIN cache : ~fs[RelPath(p, Root)].exists})

\* the lookup of __getitem__: the page at the route or None
NoPage == YamlPage(0, <<>>, <<>>, <<>>)
Lookup(pgs, route) == IF route \in DOMAIN pgs THEN pgs[route] ELSE NoPage

\* load_pages up to the walk: prune the cache when asked to
LoadPagesBegin ==
    /\ pc = "idle"
    /\ file_cache' = IF prunning THEN PruneCache(file_cache) ELSE file_cache
    /\ pc' = "walk"
    /\ dirs' = Dirs
    /\ todo' = {}
    /\ fsChanged' = FALSE
    /\ UNCHANGED <<fsVars, prunning, first_run, pages, lastResult, nextId,
                   raised, otherVars>>

\* os.walk lists the next directory (top-down: the root first); the files
\* the filter of the inner loop rejects are passed over here, the others are
\* left to visit
WalkDir(d) ==
    /\ pc = "walk"
    /\ todo = {}
    /\ d \in dirs
    /\ \A e \in dirs : Len(d) <= Len(e)
    /\ dirs' = dirs \ {d}
    /\ todo' = {f \in Existing : DirOf(f) = d /\ InScope(f)}
    /\ UNCHANGED <<fsVars, prunning, first_run, file_cache, pages, pc,
                   lastResult, nextId, fsChanged, raised, otherVars>>

\* (variant: an entry is trusted whatever its timestamp)
CacheHit_AnyMtime(cache, filepath, mtime) ==
    filepath \in DOMAIN cache

\* (variant: an entry is never trusted)
CacheHit_Never(cache, filepath, mtime) ==
    FALSE

\* load_page: the cache test
CacheHit(cache, filepath, mtime) ==
    filepath \in DOMAIN cache /\ cache[filepath].mtime = mtime

\* load_page for one listed file that passed the filter, in the arbitrary
\* order of the directory listing
VisitFile(f) ==
    /\ pc = "walk"
    /\ f \in todo
    /\ LET filepath == PathJoin(Root, f)
           route == Route(f)
       IN  IF ~fs[f].exists
           THEN \* op.getmtime raises OSError, nothing catches it
                /\ pc' = "idle"
                /\ lastResult' = "OSError"
                /\ raised' = TRUE
                /\ dirs' = {}
                /\ todo' = {}
                /\ UNCHANGED <<file_cache, pages, nextId>>
           ELSE IF CacheHit(file_cache, filepath, fs[f].mtime)
           THEN /\ todo' = todo \ {f}
                /\ UNCHANGED <<file_cache, pages, pc, lastResult, nextId,
                               dirs, raised>>
           ELSE LET mb == ParsePage(fs[f].content)
                    page == YamlPage(nextId, route, mb[1], mb[2])
                IN  /\ file_cache' = Put(file_cache, filepath,
                                         [page |-> page, mtime |-> fs[f].mtime])
                    /\ pages' = Put(pages, route, page)
                    /\ nextId' = nextId + 1
                    /\ todo' = todo \ {f}
                    /\ UNCHANGED <<pc, lastResult, dirs, raised>>
    /\ UNCHANGED <<fsVars, prunning, first_run, fsChanged, otherVars>>

\* the walk is over: load_pages returns
LoadPagesEnd ==
    /\ pc = "walk"
    /\ todo = {}
    /\ dirs = {}
    /\ first_run' = FALSE
    /\ pc' = "idle"
    /\ lastResult' = "ok"
    /\ UNCHANGED <<fsVars, prunning, file_cache, pages, dirs, todo, nextId,
                   fsChanged, raised, otherVars>>

NoDoc == [phase |-> "off"]
NoPager == [phase |-> "off"]
NoSite == [phase |-> "off"]

Init ==
    /\ fs = [f \in Files |->
               [exists |-> TRUE, mtime |-> 1, content |-> Text1]]
    /\ clock = 1
    /\ prunning \in BOOLEAN
    /\ first_run = TRUE
    /\ file_cache = EmptyDict
    /\ pages = EmptyDict
    /\ pc = "idle"
    /\ dirs = {}
    /\ todo = {}
    /\ lastResult = "none"
    /\ nextId = 1
    /\ fsChanged = FALSE
    /\ raised = FALSE
    /\ doc = NoDoc
    /\ pager = NoPager
    /\ site = NoSite

Next ==
    \/ \E f \in Changing, c \in Contents : Create(f, c)
    \/ \E f \in Changing, c \in Contents : Modify(f, c)
    \/ \E f \in Changing : Delete(f)
    \/ \E f \in Changing : Restore(f)
    \/ LoadPagesBegin
    \/ \E d \in Dirs : WalkDir(d)
    \/ \E f \in Files : VisitFile(f)
    \/ LoadPagesEnd

Spec == Init /\ [][Next]_vars

(***************************************************************************)
(* Python values, <<type, value>>: the results of yaml.load and the        *)
(* entries of page.meta                                                    *)
(***************************************************************************)
Null == <<"null", 0>>
IntV(n) == <<"int", n>>
BoolV(b) == <<"bool", b>>
StrV(s) == <<"str", s>>
SeqV(q) == <<"seq", q>>
MapV(m) == <<"map", m>>

\* the values Python's "or" treats as false
Falsy(x) ==
    CASE x[1] = "null" -> TRUE
      [] x[1] = "int" -> x[2] = 0
      [] x[1] = "bool" -> ~x[2]
      [] x[1] = "str" -> Len(x[2]) = 0
      [] x[1] = "seq" -> Len(x[2]) = 0
      [] x[1] = "map" -> DOMAIN x[2] = {}
      [] OTHER -> FALSE

Digits == <<"0", "1", "2", "3", "4", "5", "6", "7", "8", "9">>
IsDigit(c) == \E i \in 1..10 : Digits[i] = c
DigitVal(c) == (CHOOSE i \in 1..10 : Digits[i] = c) - 1

\* the value of a non-empty string of decimal digits
RECURSIVE NatOf(_)
NatOf(s) ==
    IF Len(s) = 0 THEN 0
    ELSE 10 * NatOf(SubSeq(s, 1, Len(s) - 1)) + DigitVal(s[Len(s)])

IsDigits(s) == Len(s) > 0 /\ \A i \in 1..Len(s) : IsDigit(s[i])

(***************************************************************************)
(* yaml.load on the headers of the model: block mappings "key: value",     *)
(* block sequences "- item", flow scalars and plain scalars                *)
(***************************************************************************)
T_false == <<"f", "a", "l", "s", "e">>
T_true == <<"t", "r", "u", "e">>

\* the value the YAML resolver gives a one-line scalar
ScalarOf(text) ==
    CASE text = <<>> -> Null
      [] IsDigits(text) -> IntV(NatOf(text))
      [] text = T_false -> BoolV(FALSE)
      [] text = T_true -> BoolV(TRUE)
      [] text = <<"'", "'">> -> StrV(<<>>)
      [] text = <<"[", "]">> -> SeqV(<<>>)
      [] text = <<"{", "}">> -> MapV(EmptyDict)
      [] OTHER -> StrV(text)

\* the index of the ":" that ends a mapping key in the line, 0 when none
KeyEnd(line) ==
    LET ix == {i \in 1..Len(line) :
                  /\ line[i] = ":"
                  /\ (i = Len(line) \/ line[i + 1] = " ")
                  /\ \A j \in 1..(i - 1) : line[j] # ":"}
    IN  IF ix = {} THEN 0 ELSE CHOOSE i \in ix : TRUE

IsItem(line) == StartsWith(line, <<"-", " ">>)
IsEntry(line) == ~IsItem(line) /\ KeyEnd(line) > 1

\* the mapping of a block of "key: value" lines (a later key wins)
RECURSIVE EntriesOf(_)
EntriesOf(lines) ==
    IF lines = <<>> THEN EmptyDict
    ELSE LET rest == EntriesOf(SubSeq(lines, 1, Len(lines) - 1))
             line == lines[Len(lines)]
             k == KeyEnd(line)
         IN  Put(rest, SubSeq(line, 1, k - 1),
                 ScalarOf(Strip(SubSeq(line, k + 1, Len(line)))))

YamlError == <<"YAMLError", 0>>

\* yaml.load(text, Loader): None for an empty document
YamlLoad(text) ==
    LET all == Split(text, NL)
        kept == SelectSeq(all, LAMBDA l : Strip(l) # <<>>)
        lines == [i \in 1..Len(kept) |-> Strip(kept[i])]
    IN  CASE lines = <<>> -> Null
          [] lines # <<>> /\ \A i \in 1..Len(lines) : IsEntry(lines[i]) ->
                MapV(EntriesOf(lines))
          [] lines # <<>> /\ \A i \in 1..Len(lines) : IsItem(lines[i]) ->
                SeqV([i \in 1..Len(lines) |->
                        ScalarOf(Strip(SubSeq(lines[i], 3, Len(lines[i]))))])
          [] lines # <<>> /\ \A i \in 1..Len(lines) :
                                ~IsEntry(lines[i]) /\ ~IsItem(lines[i]) ->
                ScalarOf(Join(lines, " "))
          [] OTHER -> YamlError

(***************************************************************************)
(* YamlPage: the cached properties                                         *)
(***************************************************************************)
\* a result: the value returned, or the exception raised
Ok(v) == [kind |-> "ok", val |-> v]
Raise(e) == [kind |-> e, val |-> Null]
NoResult == [kind |-> "none", val |-> Null]

\* YamlPage.meta, first access: yaml.load(...) or {}, then the assertion
MetaOf(header) ==
    LET loaded == YamlLoad(header)
        meta == IF loaded[1] = "YAMLError" THEN loaded
                ELSE IF Falsy(loaded) THEN MapV(EmptyDict) ELSE loaded
    IN  IF meta[1] = "YAMLError" THEN Raise("YAMLError")
        ELSE IF meta[1] # "map" THEN Raise("AssertionError")
        ELSE Ok(meta)

\* the collection's renderer: an opaque function of the body text
Renderer(body) == <<"rendered", body>>

L_kv == <<"k", ":", " ", "v">>
L_j0 == <<"j", ":", " ", "0">>
L_item == <<"-", " ", "x">>
HeaderLines ==
    {L_kv, L_j0, L_item, <<"x">>, <<"0">>, <<"7">>, T_false, T_true,
     <<"'", "'">>, <<"[", "]">>, <<"{", "}">>}
BlankLines == {<<>>, <<" ">>}
BodyLines == {<<"x">>, <<>>}

\* the header blocks and the bodies of the documents of SpecDoc
DocHeaders ==
    {<<>>} \cup {<<l>> : l \in HeaderLines}
           \cup {<<L_kv, L_j0>>, <<L_kv, L_kv>>, <<L_item, L_item>>,
                 <<L_kv, <<"x">>>>, <<<<"x">>, <<"x">>>>}
DocBodies ==
    {<<>>} \cup {<<l>> : l \in BodyLines}
           \cup {<<l, m>> : l \in BodyLines, m \in BodyLines}
DocContents ==
    {Join(h, NL) : h \in DocHeaders}
    \cup {Join(h \o <<b>> \o t, NL) :
            h \in DocHeaders, b \in BlankLines, t \in DocBodies}

MetaKeys == {<<"k">>, <<"j">>, <<"z">>}

docIdle(p) ==
    [phase |-> "page", content |-> <<>>, page |-> p, metaCache |-> {},
     bodyCache |-> {}, op |-> "new", out |-> NoResult]

\* YamlPages.parse_page and the construction of the page in load_page
DocLoad ==
    /\ doc.phase = "file"
    /\ LET mb == ParsePage(doc.content)
       IN  doc' = docIdle(YamlPage(1, <<"p">>, mb[1], mb[2]))
    /\ UNCHANGED <<fsVars, loaderVars, fsChanged, pager, site>>

\* page.meta: computed on the first access that succeeds, then cached
DocMeta ==
    /\ doc.phase = "page"
    /\ IF doc.metaCache # {}
       THEN doc' = [doc EXCEPT !.op = "meta",
                               !.out = Ok(CHOOSE m \in doc.metaCache : TRUE)]
       ELSE LET r == MetaOf(doc.page.meta)
            IN  doc' = [doc EXCEPT !.op = "meta", !.out = r,
                                   !.metaCache = IF r.kind = "ok"
                                                 THEN {r.val} ELSE {}]
    /\ UNCHANGED <<fsVars, loaderVars, fsChanged, pager, site>>

\* page.body: the renderer's result, cached
DocBody ==
    /\ doc.phase = "page"
    /\ LET b == IF doc.bodyCache # {} THEN CHOOSE x \in doc.bodyCache : TRUE
                ELSE Renderer(doc.page.body)
       IN  doc' = [doc EXCEPT !.op = "body", !.out = Ok(b),
                              !.bodyCache = {b}]
    /\ UNCHANGED <<fsVars, loaderVars, fsChanged, pager, site>>

\* page[key]: self.meta[key]
DocGetItem(key) ==
    /\ doc.phase = "page"
    /\ LET r == IF doc.metaCache # {}
                THEN Ok(CHOOSE m \in doc.metaCache : TRUE)
                ELSE MetaOf(doc.page.meta)
       IN  doc' = [doc EXCEPT
                     !.op = "getitem",
                     !.metaCache = IF r.kind = "ok" THEN {r.val} ELSE {},
                     !.out = IF r.kind # "ok" THEN r
                             ELSE IF key \in DOMAIN r.val[2]
                             THEN Ok(r.val[2][key])
                             ELSE Raise("KeyError")]
    /\ UNCHANGED <<fsVars, loaderVars, fsChanged, pager, site>>

\* the collection untouched: the state YamlPages.__init__ leaves
LoaderInit ==
    /\ clock = 1
    /\ first_run = TRUE
    /\ file_cache = EmptyDict
    /\ pages = EmptyDict
    /\ pc = "idle"
    /\ dirs = {}
    /\ todo = {}
    /\ lastResult = "none"
    /\ nextId = 1
    /\ fsChanged = FALSE
    /\ raised = FALSE

\* a file about to be loaded, or a page built from a header and a body
DocInit ==
    /\ fs = [f \in Files |->
               [exists |-> TRUE, mtime |-> 1, content |-> Text1]]
    /\ prunning = TRUE
    /\ LoaderInit
    /\ \/ \E c \in DocContents :
             doc = [phase |-> "file", content |-> c, page |-> NoPage,
                    metaCache |-> {}, bodyCache |-> {}, op |-> "new",
                    out |-> NoResult]
       \/ \E h \in {Join(x, NL) : x \in DocHeaders} \cup BlankLines
                   \cup {<<" ", NL, " ">>} :
             doc = docIdle(YamlPage(1, <<"p">>, h, <<"x">>))
    /\ pager = NoPager
    /\ site = NoSite

DocNext ==
    \/ DocLoad
    \/ DocMeta
    \/ DocBody
    \/ \E key \in MetaKeys : DocGetItem(key)

SpecDoc == DocInit /\ [][DocNext]_vars

(***************************************************************************)
(* scripts/flaskyll.py: the context                                        *)
(***************************************************************************)
DateV(d) == <<"date", d>>

K_date == <<"d", "a", "t", "e">>
K_categories == <<"c", "a", "t", "e", "g", "o", "r", "i", "e", "s">>
K_paginate == <<"p", "a", "g", "i", "n", "a", "t", "e">>
K_category == <<"c", "a", "t", "e", "g", "o", "r", "y">>
K_perpage == <<"p", "e", "r", "p", "a", "g", "e">>
T_uncategorized ==
    <<"u", "n", "c", "a", "t", "e", "g", "o", "r", "i", "z", "e", "d">>
T_posts == <<"p", "o", "s", "t", "s">>

\* (variant: a post goes before the posts of its own date)
InsertByDate_BeforeTies(front, x, heap) ==
    LET key(id) == heap[id][K_date][2]
        n == Cardinality({j \in 1..Len(front) : key(front[j]) > key(x)})
    IN  SubSeq(front, 1, n) \o <<x>> \o SubSeq(front, n + 1, Len(front))

\* where the sort puts x among the posts that precede it in the list: after
\* those of a later or the same date (equal keys keep their order)
InsertByDate(front, x, heap) ==
    LET key(id) == heap[id][K_date][2]
        n == Cardinality({j \in 1..Len(front) : key(front[j]) >= key(x)})
    IN  SubSeq(front, 1, n) \o <<x>> \o SubSeq(front, n + 1, Len(front))

\* list.sort(reverse = True, key = date): stable
RECURSIVE SortByDateDesc(_, _)
SortByDateDesc(ids, heap) ==
    IF ids = <<>> THEN <<>>
    ELSE InsertByDate(SortByDateDesc(SubSeq(ids, 1, Len(ids) - 1), heap),
                      ids[Len(ids)], heap)

\* what "for category in post.meta['categories']" iterates over: the items
\* of a list, the characters of a string
IterItems(x) ==
    CASE x[1] = "seq" -> x[2]
      [] x[1] = "str" -> [i \in 1..Len(x[2]) |-> StrV(<<x[2][i]>>)]
      [] OTHER -> <<>>
Iterable(x) == x[1] \in {"seq", "str"}

\* categories.setdefault(category, []); categories[category].append(post)
RECURSIVE AppendAll(_, _, _)
AppendAll(cats, keys, id) ==
    IF keys = <<>> THEN cats
    ELSE LET k == Head(keys)
             old == IF k \in DOMAIN cats THEN cats[k] ELSE <<>>
         IN  AppendAll(Put(cats, k, Append(old, id)), Tail(keys), id)

\* (variant: a post is filed under its categories before its date is looked
\* at)
SkipPost_Filed(acc, id) ==
    LET meta == acc.heap[id]
    IN  IF K_categories \in DOMAIN meta /\ Iterable(meta[K_categories])
        THEN [acc EXCEPT !.categories =
                             AppendAll(@, IterItems(meta[K_categories]), id)]
        ELSE acc

\* a post without a date: the body of the loop does nothing
SkipPost(acc, id) == acc

\* (variant: the default names the category twice)
DefaultCategories_Twice(meta) ==
    IF K_categories \in DOMAIN meta THEN meta
    ELSE Put(meta, K_categories,
             SeqV(<<StrV(T_uncategorized), StrV(T_uncategorized)>>))

\* post.meta after "if not 'categories' in post.meta: post.meta[...] = [...]"
DefaultCategories(meta) ==
    IF K_categories \in DOMAIN meta THEN meta
    ELSE Put(meta, K_categories, SeqV(<<StrV(T_uncategorized)>>))

\* the loop of build_base_context over the posts in iteration order; acc is
\* [published, categories, heap, err], heap the metadata of the posts
RECURSIVE BuildLoop(_, _)
BuildLoop(order, acc) ==
    IF order = <<>> \/ acc.err # "none" THEN acc
    ELSE LET id == Head(order)
             meta == acc.heap[id]
         IN  IF K_date \notin DOMAIN meta
             THEN BuildLoop(Tail(order), SkipPost(acc, id))
             ELSE IF meta[K_date][1] # "date"
             THEN [acc EXCEPT !.published = Append(@, id),
                              !.err = "wrong date format"]
             ELSE LET meta2 == DefaultCategories(meta)
                      cs == meta2[K_categories]
                  IN  IF ~Iterable(cs)
                      THEN [acc EXCEPT !.published = Append(@, id),
                                       !.heap = Put(@, id, meta2),
                                       !.err = "TypeError"]
                      ELSE BuildLoop(Tail(order),
                             [acc EXCEPT
                                !.published = Append(@, id),
                                !.heap = Put(@, id, meta2),
                                !.categories = AppendAll(@, IterItems(cs), id)])

\* build_base_context: [err, ctx, heap]; ctx is the dict it returns, heap the
\* metadata as the call leaves it (also when it raises)
BuildBaseContext(order, heap) ==
    LET acc == BuildLoop(order, [published |-> <<>>, categories |-> EmptyDict,
                                 heap |-> heap, err |-> "none"])
    IN  [err |-> acc.err,
         heap |-> acc.heap,
         ctx |-> [pages |-> "pages",
                  posts |-> IF acc.err = "none"
                            THEN SortByDateDesc(acc.published, acc.heap)
                            ELSE <<>>,
                  categories |-> acc.categories]]

(***************************************************************************)
(* scripts/flaskyll.py: pagination                                         *)
(***************************************************************************)
PagerV(page, total, posts) ==
    <<"pager", [page |-> page, total |-> total, posts |-> posts]>>

\* isinstance(x, int): bool is a subclass of int
IsInt(x) == x[1] \in {"int", "bool"}
\* int(x) for such a value
IntOf(x) == IF x[1] = "bool" THEN (IF x[2] THEN 1 ELSE 0) ELSE x[2]

\* int(text): an optional minus sign and decimal digits
IntParses(text) ==
    \/ IsDigits(text)
    \/ Len(text) > 1 /\ Head(text) = "-" /\ IsDigits(Tail(text))
IntOfText(text) ==
    IF Head(text) = "-" THEN 0 - NatOf(Tail(text)) ELSE NatOf(text)

\* int(current) succeeds
Coercible(current) ==
    IsInt(current) \/ (current[1] = "str" /\ IntParses(current[2]))
Coerce(current) ==
    IF IsInt(current) THEN IntOf(current) ELSE IntOfText(current[2])

\* (variant: the quotient is truncated)
TotalPages_Floor(n, perpage) == n \div perpage

\* int(math.ceil(float(len(posts)) / perpage))
TotalPages(n, perpage) ==
    IF n % perpage = 0 THEN n \div perpage ELSE (n \div perpage) + 1

\* (variant: no upper limit on the page number)
CurrentInRange_NoUpper(current, total) == current > 0

\* the assertion on the coerced page number
CurrentInRange(current, total) == current > 0 /\ current <= total

\* (variant: the slice takes the element at its end index too)
Slice_Inclusive(q, start, end) ==
    LET lo == IF start > Len(q) THEN Len(q) ELSE start
        hi == IF end + 1 > Len(q) THEN Len(q) ELSE end + 1
    IN  IF hi <= lo THEN <<>> ELSE SubSeq(q, lo + 1, hi)

\* posts[start:end]: indices are clamped to the list
Slice(q, start, end) ==
    LET lo == IF start > Len(q) THEN Len(q) ELSE start
        hi == IF end > Len(q) THEN Len(q) ELSE end
    IN  IF hi <= lo THEN <<>> ELSE SubSeq(q, lo + 1, hi)

E_NoCategory == "pagination category does not exist"
E_PerPage == "pagination: invalid perpage"
E_Current == "pagination: invalid current page"
E_Category == "pagination: category does not exist"

\* build_posts_pager
BuildPostsPager(meta, current, ctx) ==
    IF /\ K_category \in DOMAIN meta
       /\ meta[K_category] \notin DOMAIN ctx.categories
    THEN Raise(E_NoCategory)
    ELSE LET posts == IF K_category \in DOMAIN meta
                      THEN ctx.categories[meta[K_category]]
                      ELSE ctx.posts
         IN  IF K_perpage \in DOMAIN meta
                /\ (~IsInt(meta[K_perpage]) \/ IntOf(meta[K_perpage]) < 1)
             THEN Raise(E_PerPage)
             ELSE IF K_perpage \notin DOMAIN meta
             THEN \* perpage is None: float / None
                  Raise("TypeError")
             ELSE LET perpage == IntOf(meta[K_perpage])
                      total == TotalPages(Len(posts), perpage)
                  IN  IF ~Coercible(current)
                         \/ ~CurrentInRange(Coerce(current), total)
                      THEN Raise(E_Current)
                      ELSE LET cur == Coerce(current)
                           IN  Ok(PagerV(IntV(cur), total,
                                         Slice(posts, (cur - 1) * perpage,
                                               cur * perpage)))

\* (variant: the total counts the posts of the category)
BuildCategoriesPager_TotalPosts(meta, current, ctx) ==
    IF current[1] # "str" THEN Ok(Null)
    ELSE IF current \notin DOMAIN ctx.categories THEN Raise(E_Category)
    ELSE Ok(PagerV(current, Len(ctx.categories[current]),
                   ctx.categories[current]))

\* build_categories_pager; the sorted list of the category names is used
\* for membership and length only, which are those of the key set
BuildCategoriesPager(meta, current, ctx) ==
    IF current[1] # "str" THEN Ok(Null)
    ELSE IF current \notin DOMAIN ctx.categories THEN Raise(E_Category)
    ELSE Ok(PagerV(current, Cardinality(DOMAIN ctx.categories),
                   ctx.categories[current]))

T_categories == K_categories

\* maybe_build_pager
MaybeBuildPager(meta, current, ctx) ==
    IF K_paginate \in DOMAIN meta /\ meta[K_paginate] = StrV(T_posts)
    THEN BuildPostsPager(meta, current, ctx)
    ELSE IF K_paginate \in DOMAIN meta /\ meta[K_paginate] = StrV(T_categories)
    THEN BuildCategoriesPager(meta, current, ctx)
    ELSE Ok(Null)

\* what page() renders once the page is found: with a pager or plain
ViewV(pagerArg) == <<"view", pagerArg>>
PageView(meta, current, ctx) ==
    IF K_paginate \in DOMAIN meta
    THEN LET r == MaybeBuildPager(meta, current, ctx)
         IN  IF r.kind # "ok" THEN r
             ELSE IF ~Falsy(r.val) THEN Ok(ViewV(r.val))
             ELSE Ok(ViewV(Null))
    ELSE Ok(ViewV(Null))

(***************************************************************************)
(* SpecPager: requests against a built context                             *)
(***************************************************************************)
C_x == StrV(<<"x">>)
C_y == StrV(<<"y">>)

\* the metadata of the n posts of a site; how they are filed is one of
\* "none" (no categories field), "x" (all in x), "xy" (every second in x, y)
Filings == {"none", "x", "xy"}
PostMeta(i, filing) ==
    LET dated == Put(EmptyDict, K_date, DateV(i % 3))
    IN  CASE filing = "none" -> dated
          [] filing = "x" -> Put(dated, K_categories, SeqV(<<C_x>>))
          [] OTHER -> Put(dated, K_categories,
                          IF i % 2 = 0 THEN SeqV(<<C_x, C_y>>)
                          ELSE SeqV(<<C_x>>))
SiteContext(n, filing) ==
    BuildBaseContext([i \in 1..n |-> i],
                     [i \in 1..n |-> PostMeta(i, filing)]).ctx

\* the page numbers a route can carry: texts over a small alphabet
CurChars == {"0", "1", "2", "-", "x"}
RECURSIVE TextsUpTo(_)
TextsUpTo(n) ==
    IF n = 0 THEN {<<>>}
    ELSE LET shorter == TextsUpTo(n - 1)
         IN  shorter \cup {Append(t, c) : t \in shorter, c \in CurChars}

\* page.meta of the requested page: a mapping of the pagination options,
\* each present or not
PagerMetas(maxPerPage) ==
    LET paginates == {Null, StrV(T_posts), StrV(T_categories),
                      StrV(<<"t", "a", "g", "s">>)}
        cats == {Null, C_x, StrV(<<"q">>)}
        perpages == {Null, StrV(<<"2">>), BoolV(TRUE)}
                    \cup {IntV(k) : k \in (0 - 1)..maxPerPage}
        opt(m, k, x) == IF x = Null THEN m ELSE Put(m, k, x)
    IN  {opt(opt(opt(EmptyDict, K_paginate, a), K_category, b), K_perpage, c) :
            a \in paginates, b \in cats, c \in perpages}

PagerInit ==
    /\ fs = [f \in Files |->
               [exists |-> TRUE, mtime |-> 1, content |-> Text1]]
    /\ prunning = TRUE
    /\ LoaderInit
    /\ doc = NoDoc
    /\ site = NoSite
    /\ \E n \in 0..MaxPosts, filing \in Filings, m \in PagerMetas(MaxPerPage),
          cur \in {IntV(1), C_y, StrV(T_uncategorized)}
                  \cup {StrV(<<Digits[k + 1]>>) : k \in 3..(MaxPosts + 1)}
                  \cup {StrV(t) : t \in TextsUpTo(MaxCurLen)} :
          pager = [phase |-> "ready", ctx |-> SiteContext(n, filing),
                   meta |-> m, current |-> cur, op |-> "none",
                   out |-> NoResult]

\* a request for the page: page(path, current), the page found
CallPage ==
    /\ pager.phase = "ready"
    /\ pager' = [pager EXCEPT
                   !.op = "page",
                   !.out = PageView(pager.meta, pager.current, pager.ctx)]
    /\ UNCHANGED <<fsVars, loaderVars, fsChanged, doc, site>>

CallMaybeBuildPager ==
    /\ pager.phase = "ready"
    /\ pager' = [pager EXCEPT
                   !.op = "maybe_build_pager",
                   !.out = MaybeBuildPager(pager.meta, pager.current,
                                           pager.ctx)]
    /\ UNCHANGED <<fsVars, loaderVars, fsChanged, doc, site>>

CallBuildPostsPager ==
    /\ pager.phase = "ready"
    /\ pager' = [pager EXCEPT
                   !.op = "build_posts_pager",
                   !.out = BuildPostsPager(pager.meta, pager.current,
                                           pager.ctx)]
    /\ UNCHANGED <<fsVars, loaderVars, fsChanged, doc, site>>

CallBuildCategoriesPager ==
    /\ pager.phase = "ready"
    /\ pager' = [pager EXCEPT
                   !.op = "build_categories_pager",
                   !.out = BuildCategoriesPager(pager.meta, pager.current,
                                                pager.ctx)]
    /\ UNCHANGED <<fsVars, loaderVars, fsChanged, doc, site>>

PagerNext ==
    \/ CallPage
    \/ CallMaybeBuildPager
    \/ CallBuildPostsPager
    \/ CallBuildCategoriesPager

SpecPager == PagerInit /\ [][PagerNext]_vars

(***************************************************************************)
(* SpecContext: build_base_context over the cached posts of a collection   *)
(***************************************************************************)
\* the metadata a post can declare: a date (a date value or not) or none, a
\* categories field (a list, or a value that is not a list) or none
SiteMetas ==
    LET dates == {Null, DateV(1), DateV(2)}
        cats == {Null, SeqV(<<>>), SeqV(<<C_x>>), SeqV(<<C_y, C_x>>), IntV(0)}
        opt(m, k, x) == IF x = Null THEN m ELSE Put(m, k, x)
    IN  {opt(opt(EmptyDict, K_date, d), K_categories, c) :
            d \in dates, c \in cats}
        \cup {Put(EmptyDict, K_date, StrV(<<"x">>))}

\* the posts collection is loaded: order is the order "for post in posts"
\* enumerates the pages in, heap0 their metadata as parsed, heap their
\* cached metadata now
ContextInit ==
    /\ fs = [f \in Files |->
               [exists |-> TRUE, mtime |-> 1, content |-> Text1]]
    /\ prunning = TRUE
    /\ LoaderInit
    /\ doc = NoDoc
    /\ pager = NoPager
    /\ \E n \in 0..MaxSitePosts :
          \E metas \in [1..n -> SiteMetas] :
             site = [phase |-> "ctx", order |-> [i \in 1..n |-> i],
                     heap0 |-> metas, heap |-> metas, builds |-> 0,
                     out |-> NoResult]

\* a call of build_base_context() over the same pages
CallBuildBaseContext ==
    /\ site.phase = "ctx"
    /\ site.builds < MaxBuilds
    /\ LET r == BuildBaseContext(site.order, site.heap)
       IN  site' = [site EXCEPT
                      !.heap = r.heap,
                      !.builds = @ + 1,
                      !.out = IF r.err = "none" THEN Ok(r.ctx)
                              ELSE Raise(r.err)]
    /\ UNCHANGED <<fsVars, loaderVars, fsChanged, doc, pager>>

ContextNext == CallBuildBaseContext

SpecContext == ContextInit /\ [][ContextNext]_vars

(***************************************************************************)
(* SpecReload: requests in DEBUG mode, each reloading the collections and  *)
(* rebuilding the shared context, served by several threads                *)
(***************************************************************************)
Threads == {1, 2}
ServedPosts == {1, 2}

\* dict.update
Update(d, e) ==
    [k \in (DOMAIN d) \cup (DOMAIN e) |-> IF k \in DOMAIN e THEN e[k] ELSE d[k]]

\* the headers an author gives a post: dated, filed or not, or with a date
\* that is not a date value
GoodMetas ==
    {Put(EmptyDict, K_date, DateV(1)),
     Put(Put(EmptyDict, K_date, DateV(2)), K_categories, SeqV(<<C_x>>))}
BadMeta == Put(EmptyDict, K_date, StrV(<<"x">>))

\* page.meta of the requested page: it paginates the posts one per page
ListingMeta ==
    Put(Put(EmptyDict, K_paginate, StrV(T_posts)), K_perpage, IntV(1))

NoRequest == [pc |-> "idle", built |-> Null, out |-> NoResult]

\* the module is imported: the collections are loaded by the first
\* enumeration and context = build_base_context() has succeeded
ReloadInit ==
    /\ fs = [f \in Files |->
               [exists |-> TRUE, mtime |-> 1, content |-> Text1]]
    /\ prunning = TRUE
    /\ LoaderInit
    /\ doc = NoDoc
    /\ pager = NoPager
    /\ \E metas \in [ServedPosts -> GoodMetas] :
          LET r == BuildBaseContext(<<1, 2>>, metas)
          IN  site = [phase |-> "srv", order |-> <<1, 2>>,
                      files |-> metas, stale |-> {}, heap |-> r.heap,
                      context |-> r.ctx, good |-> r.ctx, edits |-> 0,
                      req |-> [t \in Threads |-> NoRequest]]

\* the author rewrites the file of a post
EditPost(id, meta) ==
    /\ site.phase = "srv"
    /\ site.edits < MaxEdits
    /\ site.files[id] # meta
    /\ site' = [site EXCEPT !.files[id] = meta,
                            !.stale = @ \cup {id},
                            !.edits = @ + 1]
    /\ UNCHANGED <<fsVars, loaderVars, fsChanged, doc, pager>>

\* reload_context_on_debug, the two load_pages: the page of every rewritten
\* file is replaced by a new one, with the metadata of the file
ReqLoadPages(t) ==
    /\ site.phase = "srv"
    /\ site.req[t].pc = "idle"
    /\ site' = [site EXCEPT
                   !.heap = [id \in ServedPosts |->
                               IF id \in site.stale THEN site.files[id]
                               ELSE site.heap[id]],
                   !.stale = {},
                   !.req[t] = [pc |-> "loaded", built |-> Null,
                               out |-> NoResult]]
    /\ UNCHANGED <<fsVars, loaderVars, fsChanged, doc, pager>>

\* context.clear()
ReqClear(t) ==
    /\ site.phase = "srv"
    /\ site.req[t].pc = "loaded"
    /\ site' = [site EXCEPT !.context = EmptyDict,
                            !.req[t].pc = "cleared"]
    /\ UNCHANGED <<fsVars, loaderVars, fsChanged, doc, pager>>

\* the argument of context.update is evaluated: build_base_context(); its
\* exception ends the request
ReqBuild(t) ==
    /\ site.phase = "srv"
    /\ site.req[t].pc = "cleared"
    /\ LET r == BuildBaseContext(site.order, site.heap)
       IN  site' = [site EXCEPT
                      !.heap = r.heap,
                      !.req[t] = IF r.err = "none"
                                 THEN [pc |-> "built", built |-> r.ctx,
                                       out |-> NoResult]
                                 ELSE [pc |-> "idle", built |-> Null,
                                       out |-> Raise(r.err)]]
    /\ UNCHANGED <<fsVars, loaderVars, fsChanged, doc, pager>>

\* context.update(...)
ReqUpdate(t) ==
    /\ site.phase = "srv"
    /\ site.req[t].pc = "built"
    /\ site' = [site EXCEPT
                   !.context = Update(site.context, site.req[t].built),
                   !.good = site.req[t].built,
                   !.req[t] = [pc |-> "updated", built |-> Null,
                               out |-> NoResult]]
    /\ UNCHANGED <<fsVars, loaderVars, fsChanged, doc, pager>>

\* the rest of page(): the page is found, its pager is built from the
\* entries of the shared context and the page is rendered
ReqRender(t) ==
    /\ site.phase = "srv"
    /\ site.req[t].pc = "updated"
    /\ site' = [site EXCEPT
                   !.req[t].pc = "idle",
                   !.req[t].out =
                       IF {"posts", "categories"} \subseteq DOMAIN site.context
                       THEN PageView(ListingMeta, IntV(1), site.context)
                       ELSE Raise("KeyError")]
    /\ UNCHANGED <<fsVars, loaderVars, fsChanged, doc, pager>>

ReloadNext ==
    \/ \E id \in ServedPosts, m \in GoodMetas \cup {BadMeta} : EditPost(id, m)
    \/ \E t \in Threads : ReqLoadPages(t)
    \/ \E t \in Threads : ReqClear(t)
    \/ \E t \in Threads : ReqBuild(t)
    \/ \E t \in Threads : ReqUpdate(t)
    \/ \E t \in Threads : ReqRender(t)

SpecReload == ReloadInit /\ [][ReloadNext]_vars

(***************************************************************************)
(* SpecAccess: the collection through its methods, one call a step, over   *)
(* a file system that changes between the calls (and under a walk)         *)
(***************************************************************************)
\* the orders os.walk lists the files in, the root before its directories;
\* a collection keeps the order it starts with
Listings ==
    {<<F_ah, F_ax, F_dt, F_sbh, F_sch>>, <<F_ax, F_sbh, F_ah, F_dt, F_sch>>}

\* the loop of load_pages over the files listed that pass the filter; gone
\* are the files removed since they were listed; st is [cache, pages,
\* nextId, err]
RECURSIVE LoadWalk(_, _, _)
LoadWalk(files, gone, st) ==
    IF files = <<>> THEN st
    ELSE LET f == Head(files)
             filepath == PathJoin(Root, f)
         IN  IF f \in gone
             THEN [st EXCEPT !.err = "OSError"]
             ELSE IF CacheHit(st.cache, filepath, fs[f].mtime)
             THEN LoadWalk(Tail(files), gone, st)
             ELSE LET mb == ParsePage(fs[f].content)
                      page == YamlPage(st.nextId, Route(f), mb[1], mb[2])
                  IN  LoadWalk(Tail(files), gone,
                               [st EXCEPT
                                  !.cache = Put(@, filepath,
                                                [page |-> page,
                                                 mtime |-> fs[f].mtime]),
                                  !.pages = Put(@, Route(f), page),
                                  !.nextId = @ + 1])

\* the files load_pages hands to load_page, in the order of the walk
Visits(listing) == SelectSeq(listing, LAMBDA f : fs[f].exists /\ InScope(f))

\* load_pages as one call
LoadPagesResult(listing, gone) ==
    LoadWalk(Visits(listing), gone,
             [cache |-> IF prunning THEN PruneCache(file_cache)
                        ELSE file_cache,
              pages |-> pages, nextId |-> nextId, err |-> "none"])

\* what the call of load_pages leaves behind
ApplyLoad(r, gone) ==
    /\ file_cache' = r.cache
    /\ pages' = r.pages
    /\ nextId' = r.nextId
    /\ first_run' = IF r.err = "none" THEN FALSE ELSE first_run
    /\ lastResult' = IF r.err = "none" THEN "ok" ELSE r.err
    /\ raised' = (raised \/ r.err # "none")
    /\ fs' = [f \in Files |-> IF f \in gone
                               THEN [fs[f] EXCEPT !.exists = FALSE]
                               ELSE fs[f]]
    /\ clock' = IF gone = {} THEN clock ELSE clock + 1
    /\ fsChanged' = (gone # {})
    /\ UNCHANGED <<prunning, pc, dirs, todo, doc, pager>>

\* the files that change in SpecAccess: the two that map to one route
Colliding == {F_ah, F_ax}

\* the files that can be removed under a walk: none, or one of those it
\* has listed
Vanishing(listing) ==
    {{}} \cup {{f} : f \in {g \in Colliding :
                               /\ clock < MaxClock
                               /\ fs[g].exists /\ InScope(g)}}

\* itervalues()
Values(d) == {d[k] : k \in DOMAIN d}

\* (variant: every access reloads)
NeedsLoad_Always(first) == TRUE

\* "if self._first_run:" of __getitem__ and __iter__
NeedsLoad(first) == first

AccessRoutes == {<<"a">>, <<"z">>}

AccessInit ==
    /\ fs = [f \in Files |->
               [exists |-> TRUE, mtime |-> 1, content |-> Text1]]
    /\ prunning \in BOOLEAN
    /\ LoaderInit
    /\ doc = NoDoc
    /\ pager = NoPager
    /\ \E l \in Listings :
          site = [phase |-> "acc", listing |-> l, walked |-> <<>>,
                  op |-> "new", arg |-> <<>>, tick |-> 0, loads |-> 0,
                  completed |-> FALSE, ret |-> NoResult]

\* pages.load_pages()
CallLoadPages(gone) ==
    /\ site.phase = "acc"
    /\ gone \in Vanishing(site.listing)
    /\ LET r == LoadPagesResult(site.listing, gone)
       IN  /\ ApplyLoad(r, gone)
           /\ site' = [site EXCEPT
                          !.op = "load_pages", !.arg = <<>>,
                          !.tick = 1 - @, !.loads = 1,
                          !.walked = Visits(site.listing),
                          !.completed = (@ \/ r.err = "none"),
                          !.ret = IF r.err = "none" THEN Ok(Null)
                                  ELSE Raise(r.err)]

\* pages[route]
CallGetItem(route, gone) ==
    /\ site.phase = "acc"
    /\ IF NeedsLoad(first_run)
       THEN /\ gone \in Vanishing(site.listing)
            /\ LET r == LoadPagesResult(site.listing, gone)
               IN  /\ ApplyLoad(r, gone)
                   /\ site' = [site EXCEPT
                                  !.op = "getitem", !.arg = route,
                                  !.tick = 1 - @, !.loads = 1,
                                  !.walked = Visits(site.listing),
                                  !.completed = (@ \/ r.err = "none"),
                                  !.ret = IF r.err = "none"
                                          THEN Ok(Lookup(r.pages, route))
                                          ELSE Raise(r.err)]
       ELSE /\ gone = {}
            /\ site' = [site EXCEPT !.op = "getitem", !.arg = route,
                                    !.tick = 1 - @, !.loads = 0,
                                    !.ret = Ok(Lookup(pages, route))]
            /\ UNCHANGED <<fsVars, loaderVars, fsChanged, doc, pager>>

\* iter(pages)
CallIter(gone) ==
    /\ site.phase = "acc"
    /\ IF NeedsLoad(first_run)
       THEN /\ gone \in Vanishing(site.listing)
            /\ LET r == LoadPagesResult(site.listing, gone)
               IN  /\ ApplyLoad(r, gone)
                   /\ site' = [site EXCEPT
                                  !.op = "iter", !.arg = <<>>,
                                  !.tick = 1 - @, !.loads = 1,
                                  !.walked = Visits(site.listing),
                                  !.completed = (@ \/ r.err = "none"),
                                  !.ret = IF r.err = "none"
                                          THEN Ok(Values(r.pages))
                                          ELSE Raise(r.err)]
       ELSE /\ gone = {}
            /\ site' = [site EXCEPT !.op = "iter", !.arg = <<>>,
                                    !.tick = 1 - @, !.loads = 0,
                                    !.ret = Ok(Values(pages))]
            /\ UNCHANGED <<fsVars, loaderVars, fsChanged, doc, pager>>

AccessNext ==
    \/ \E f \in Colliding, c \in Contents : Create(f, c)
    \/ \E f \in Colliding, c \in Contents : Modify(f, c)
    \/ \E f \in Colliding : Delete(f)
    \/ \E f \in Colliding : Restore(f)
    \/ \E gone \in SUBSET Colliding : CallLoadPages(gone)
    \/ \E r \in AccessRoutes, gone \in SUBSET Colliding : CallGetItem(r, gone)
    \/ \E gone \in SUBSET Colliding : CallIter(gone)

SpecAccess == AccessInit /\ [][AccessNext]_vars

(***************************************************************************)
(* SpecPaging: a reader follows the pages of a listing of posts, the       *)
(* requests for current = 1, 2, ... against one context                    *)
(***************************************************************************)
\* current as page() receives it: the default 1, or the text of the URL
CurrentOf(c) == IF c = 1 THEN IntV(1) ELSE StrV(<<Digits[c + 1]>>)

\* page.meta of the listing: all the posts or those of a category, perpage
\* an integer of at least 1
PagingMetas(maxPerPage) ==
    LET base(k) == Put(Put(EmptyDict, K_paginate, StrV(T_posts)),
                       K_perpage, IntV(k))
    IN  {base(k) : k \in 1..maxPerPage}
        \cup {Put(base(k), K_category, C_x) : k \in 1..maxPerPage}

PagingInit ==
    /\ fs = [f \in Files |->
               [exists |-> TRUE, mtime |-> 1, content |-> Text1]]
    /\ prunning = TRUE
    /\ LoaderInit
    /\ doc = NoDoc
    /\ pager = NoPager
    /\ \E n \in 0..MaxPosts, filing \in Filings,
          m \in PagingMetas(MaxPerPage) :
          site = [phase |-> "paging", ctx |-> SiteContext(n, filing),
                  meta |-> m, next |-> 1, got |-> <<>>, out |-> NoResult]

\* the request for the next page: build_posts_pager(page.meta, current);
\* the reader stops at the first request that fails
FollowPage ==
    /\ site.phase = "paging"
    /\ site.out.kind \in {"none", "ok"}
    /\ site.next <= 9
    /\ LET r == BuildPostsPager(site.meta, CurrentOf(site.next), site.ctx)
       IN  site' = [site EXCEPT
                      !.out = r,
                      !.next = IF r.kind = "ok" THEN @ + 1 ELSE @,
                      !.got = IF r.kind = "ok" THEN Append(@, r.val[2].posts)
                              ELSE @]
    /\ UNCHANGED <<fsVars, loaderVars, fsChanged, doc, pager>>

PagingNext == FollowPage

SpecPaging == PagingInit /\ [][PagingNext]_vars

(***************************************************************************)
(* Properties of the collection (Spec)                                     *)
(***************************************************************************)
\* load_pages has returned and the file system is as it was when it began
Completed == pc = "idle" /\ lastResult = "ok" /\ ~fsChanged

InScopeFiles == {f \in Files : InScope(f)}

\* no other file of the collection maps to the route of f
UniqueRoute(f) == \A g \in InScopeFiles : Route(g) = Route(f) => g = f

\* C1: right after load_pages completes, the routes of the mapping are
\* exactly the routes of the existing files that pass the extension and
\* exclusion filter (a deleted file leaves no page at its route); stated
\* for the histories in which no reload was cut short by an exception.
C1_ExactRoutes ==
    (Completed /\ ~raised) =>
        /\ DOMAIN pages = {Route(f) : f \in Existing \cap InScopeFiles}
        /\ \A f \in InScopeFiles :
              (\A g \in Existing \cap InScopeFiles : Route(g) # Route(f))
              => Lookup(pages, Route(f)) = NoPage

\* C2: when load_pages completes, every existing in-scope file whose route
\* no other file shares has exactly one cache entry, the entry stores the
\* file's current timestamp, and the page at its route is the cached page
\* and carries the header and body split from the file's current content.
C2_CacheCoherent ==
    Completed =>
        \A f \in Existing \cap InScopeFiles :
            UniqueRoute(f) =>
                LET fp == PathJoin(Root, f)
                    mb == ParsePage(fs[f].content)
                IN  /\ Cardinality({p \in DOMAIN file_cache :
                                       RelPath(p, Root) = f}) = 1
                    /\ fp \in DOMAIN file_cache
                    /\ file_cache[fp].mtime = fs[f].mtime
                    /\ Route(f) \in DOMAIN pages
                    /\ pages[Route(f)] = file_cache[fp].page
                    /\ pages[Route(f)].meta = mb[1]
                    /\ pages[Route(f)].body = mb[2]

\* a rewritten file has been reloaded: its second revision is the one served
\* (its first revision was one of the three pages of the first load: the
\* rewrite is the only change of the file system so far)
C2_Witness ==
    /\ Completed
    /\ clock = 2
    /\ fs[F_sbh].exists /\ fs[F_sbh].mtime = 2 /\ fs[F_sbh].content = Text2
    /\ Route(F_sbh) \in DOMAIN pages
    /\ pages[Route(F_sbh)].id = Cardinality(InScopeFiles) + 1
    /\ pages[Route(F_sbh)].body = <<"y", NL, NL, "z">>

\* the parses a file system history can ask for: one per file first seen
\* and one per later change
ParseBudget == nextId - 1 <= Cardinality(InScopeFiles) + (clock - 1)

\* C3: a load of a path whose cache entry stores the file's current
\* timestamp parses nothing and leaves the cached instance and the mapping
\* as they are; a parse happens only for a path with no entry or with an
\* entry of another timestamp, so parses follow timestamp changes, not
\* reloads.
C3_IdempotentLoad ==
    /\ []ParseBudget
    /\ [][\A f \in Files :
            (pc = "walk" /\ f \in todo /\ f \notin todo')
            => LET fp == PathJoin(Root, f)
                   fresh == /\ fp \in DOMAIN file_cache
                            /\ fs[f].exists
                            /\ file_cache[fp].mtime = fs[f].mtime
               IN  /\ fresh => /\ nextId' = nextId
                               /\ file_cache' = file_cache
                               /\ pages' = pages
                   /\ nextId' # nextId => ~fresh /\ nextId' = nextId + 1]_vars

\* a second walk has visited every file of an untouched tree and every
\* in-scope file has still been parsed exactly once
C3_Witness ==
    /\ ~first_run /\ pc = "walk" /\ dirs = {} /\ todo = {}
    /\ clock = 1
    /\ Existing \cap InScopeFiles = InScopeFiles
    /\ nextId = Cardinality(InScopeFiles) + 1

\* C4: a file that vanishes between the directory listing and its load is
\* skipped: load_pages never ends with the error of the failed stat.
C4_VanishedSkipped == lastResult # "OSError"

(***************************************************************************)
(* Properties of a page (SpecDoc)                                          *)
(***************************************************************************)
\* C5: accessing the metadata fails whenever the header parses to something
\* that is not a mapping, falsy values included; only an empty or
\* whitespace-only header yields the empty mapping; a mapping is returned
\* as parsed.
C5_NonMappingFails ==
    (doc.phase = "page" /\ doc.op = "meta") =>
        LET loaded == YamlLoad(doc.page.meta)
        IN  IF Strip(doc.page.meta) = <<>> THEN doc.out = Ok(MapV(EmptyDict))
            ELSE IF loaded[1] = "map" THEN doc.out = Ok(loaded)
            ELSE doc.out.kind \notin {"ok", "none"}

(***************************************************************************)
(* Properties of the pagers (SpecPager)                                    *)
(***************************************************************************)
\* the list build_posts_pager pages through, when the request names one
HasSource ==
    K_category \in DOMAIN pager.meta =>
        pager.meta[K_category] \in DOMAIN pager.ctx.categories
Source ==
    IF K_category \in DOMAIN pager.meta
    THEN pager.ctx.categories[pager.meta[K_category]]
    ELSE pager.ctx.posts

\* perpage is an integer of at least 1
GoodPerPage ==
    /\ K_perpage \in DOMAIN pager.meta
    /\ pager.meta[K_perpage][1] = "int"
    /\ pager.meta[K_perpage][2] >= 1

\* the least t with t * perpage >= n
Ceiling(n, perpage) ==
    CHOOSE t \in 0..n :
        t * perpage >= n /\ \A u \in 0..(t - 1) : u * perpage < n

\* current is, or is the text of, an integer
CurrentIsInteger ==
    \/ pager.current[1] = "int"
    \/ pager.current[1] = "str" /\ IntParses(pager.current[2])
CurrentValue ==
    IF pager.current[1] = "int" THEN pager.current[2]
    ELSE IntOfText(pager.current[2])

\* C6: a paginate field other than "posts" or "categories" makes the
\* request fail: the page is never rendered as a plain page (or with a
\* pager) for such a value.
C6_UnknownModeFails ==
    (/\ pager.phase = "ready" /\ pager.op = "page"
     /\ K_paginate \in DOMAIN pager.meta
     /\ pager.meta[K_paginate] \notin {StrV(T_posts), StrV(T_categories)})
    => pager.out.kind # "ok"

\* C7: for a source list of n posts, an integer perpage >= 1 and a current
\* with 1 <= current <= total, build_posts_pager returns
\* total = ceiling(n / perpage), page = current and the posts of the source
\* from index (current-1)*perpage up to min(current*perpage, n), in order.
C7_PostsPagerArithmetic ==
    (/\ pager.phase = "ready" /\ pager.op = "build_posts_pager"
     /\ HasSource /\ GoodPerPage /\ CurrentIsInteger
     /\ CurrentValue >= 1
     /\ CurrentValue <= Ceiling(Len(Source), pager.meta[K_perpage][2]))
    => LET pp == pager.meta[K_perpage][2]
           n == Len(Source)
           cur == CurrentValue
           first == (cur - 1) * pp
           last == IF cur * pp < n THEN cur * pp ELSE n
       IN  /\ pager.out.kind = "ok"
           /\ pager.out.val[1] = "pager"
           /\ pager.out.val[2].total = Ceiling(n, pp)
           /\ pager.out.val[2].page = IntV(cur)
           /\ pager.out.val[2].posts =
                 [i \in 1..(last - first) |-> Source[first + i]]

\* the last page of three posts paged by two holds exactly the third post
C7_Witness ==
    /\ pager.phase = "ready" /\ pager.op = "build_posts_pager"
    /\ K_category \notin DOMAIN pager.meta
    /\ Len(pager.ctx.posts) = 3
    /\ GoodPerPage /\ pager.meta[K_perpage][2] = 2
    /\ pager.current = StrV(<<"2">>)
    /\ pager.out.kind = "ok"
    /\ pager.out.val[2].total = 2
    /\ pager.out.val[2].posts = <<pager.ctx.posts[3]>>

\* C8: build_posts_pager returns a pager only for a current that is (the
\* text of) an integer with 1 <= current <= total; for any other current,
\* and for every current when the source is empty, it fails; a returned
\* page is never empty.
C8_OutOfRangeFails ==
    (pager.phase = "ready" /\ pager.op = "build_posts_pager")
    => /\ pager.out.kind # "none"
       /\ pager.out.kind = "ok" =>
             /\ HasSource
             /\ CurrentIsInteger
             /\ CurrentValue >= 1
             /\ CurrentValue <= Ceiling(Len(Source),
                                        IntOf(pager.meta[K_perpage]))
             /\ Len(Source) > 0
             /\ pager.out.val[2].posts # <<>>
       /\ (HasSource /\ GoodPerPage
           /\ ~(/\ CurrentIsInteger
                /\ CurrentValue >= 1
                /\ CurrentValue <= Ceiling(Len(Source),
                                           pager.meta[K_perpage][2])))
          => pager.out.kind = E_Current

\* the page after the last one is refused
C8_Witness ==
    /\ pager.phase = "ready" /\ pager.op = "build_posts_pager"
    /\ K_category \notin DOMAIN pager.meta
    /\ Len(pager.ctx.posts) = 4
    /\ GoodPerPage /\ pager.meta[K_perpage][2] = 2
    /\ pager.current = StrV(<<"3">>)
    /\ pager.out.kind = E_Current

\* C9: build_posts_pager fails with the invalid-perpage error when perpage
\* is missing, is not an integer, or is less than 1.
C9_BadPerPageFails ==
    (/\ pager.phase = "ready" /\ pager.op = "build_posts_pager"
     /\ HasSource
     /\ \/ K_perpage \notin DOMAIN pager.meta
        \/ ~IsInt(pager.meta[K_perpage])
        \/ IntOf(pager.meta[K_perpage]) < 1)
    => pager.out.kind = E_PerPage

\* C10: build_categories_pager, for a text current, succeeds exactly when
\* current names a category, with page = current, total = the number of
\* categories and posts = the whole list of the category; for a text that
\* names none it fails; for a current that is not text it returns None.
C10_CategoriesPager ==
    (pager.phase = "ready" /\ pager.op = "build_categories_pager")
    => IF pager.current[1] # "str" THEN pager.out = Ok(Null)
       ELSE IF \E k \in DOMAIN pager.ctx.categories : k = pager.current
       THEN /\ pager.out.kind = "ok"
            /\ pager.out.val[1] = "pager"
            /\ pager.out.val[2].page = pager.current
            /\ pager.out.val[2].total = Cardinality(DOMAIN pager.ctx.categories)
            /\ pager.out.val[2].posts = pager.ctx.categories[pager.current]
       ELSE pager.out.kind \notin {"ok", "none"}

\* category y of two, holding two of the four posts, is served whole
C10_Witness ==
    /\ pager.phase = "ready" /\ pager.op = "build_categories_pager"
    /\ pager.current = C_y
    /\ Len(pager.ctx.posts) = 4
    /\ pager.out.kind = "ok"
    /\ pager.out.val[2].total = 2
    /\ Len(pager.out.val[2].posts) = 2

(***************************************************************************)
(* Properties of the methods of the collection (SpecAccess)                *)
(***************************************************************************)
\* the last call reloaded the collection and the reload returned
Reloaded ==
    site.phase = "acc" /\ site.loads = 1 /\ site.ret.kind = "ok"

\* C17: after a reload, the first or a later one, a route that two or more
\* of the files of the walk map to is mapped to the document of the one
\* the walk discovered last.
C17_LastDiscoveredWins ==
    Reloaded =>
        LET w == site.walked
        IN  \A i, j \in 1..Len(w) :
               (/\ i < j
                /\ Route(w[i]) = Route(w[j])
                /\ \A k \in (j + 1)..Len(w) : Route(w[k]) # Route(w[j]))
               => /\ Route(w[j]) \in DOMAIN pages
                  /\ PathJoin(Root, w[j]) \in DOMAIN file_cache
                  /\ pages[Route(w[j])] = file_cache[PathJoin(Root, w[j])].page

\* what a lookup or an enumeration of the mapping pgs returns
Reading(op, arg, pgs) ==
    IF op = "iter" THEN {pgs[r] : r \in DOMAIN pgs}
    ELSE IF arg \in DOMAIN pgs THEN pgs[arg]
    ELSE NoPage

\* C18: a lookup or an enumeration made before any reload has returned
\* runs one reload and, when that returns, reads the mapping it leaves;
\* one made after a reload has returned (by a call of load_pages or by an
\* earlier access) runs none, changes nothing and reads the mapping as it
\* is.
C18_LazyLoad ==
    [][(/\ site.phase = "acc"
        /\ site'.tick # site.tick
        /\ site'.op \in {"getitem", "iter"})
       => IF site.completed
          THEN /\ site'.loads = 0
               /\ UNCHANGED <<fs, first_run, file_cache, pages, nextId>>
               /\ site'.ret.kind = "ok"
               /\ site'.ret.val = Reading(site'.op, site'.arg, pages)
          ELSE /\ site'.loads = 1
               /\ site'.ret.kind = "ok" =>
                     /\ site'.completed
                     /\ ~first_run'
                     /\ site'.ret.val = Reading(site'.op, site'.arg, pages')
      ]_vars

\* a lookup after a reload, with a file rewritten since: it returns the
\* document of the old revision
C18_Witness ==
    /\ site.phase = "acc"
    /\ site.op = "getitem" /\ site.loads = 0 /\ site.completed
    /\ site.arg = <<"a">>
    /\ site.ret.kind = "ok"
    /\ site.ret.val = pages[<<"a">>]
    /\ \E f \in Colliding :
          /\ fs[f].exists
          /\ PathJoin(Root, f) \in DOMAIN file_cache
          /\ file_cache[PathJoin(Root, f)].mtime < fs[f].mtime

(***************************************************************************)
(* Properties of the context builder (SpecContext)                         *)
(***************************************************************************)
\* build_base_context has returned a snapshot
CtxBuilt == site.phase = "ctx" /\ site.out.kind = "ok"

\* the posts of the collection, and those whose file declares a date
SitePosts == {site.order[i] : i \in 1..Len(site.order)}
Dated(id) == K_date \in DOMAIN site.heap0[id]
DateOf(id) == site.heap0[id][K_date][2]
\* the place of a post in the enumeration of the collection
PlaceOf(id) == CHOOSE i \in 1..Len(site.order) : site.order[i] = id

\* the number of times x occurs in the list q
Count(q, x) == Cardinality({i \in 1..Len(q) : q[i] = x})

\* C11: the posts entry of a snapshot lists each post that declares a date
\* once and no other post, a later date before an earlier one, and posts of
\* the same date in the order the collection enumerated them.
C11_PublishedOrder ==
    CtxBuilt =>
        LET pub == site.out.val.posts
        IN  /\ \A id \in SitePosts :
                  Count(pub, id) = IF Dated(id) THEN 1 ELSE 0
            /\ \A i \in 1..Len(pub) : pub[i] \in SitePosts
            /\ \A i, j \in 1..Len(pub) :
                  i < j =>
                     \/ DateOf(pub[i]) > DateOf(pub[j])
                     \/ /\ DateOf(pub[i]) = DateOf(pub[j])
                        /\ PlaceOf(pub[i]) < PlaceOf(pub[j])

\* two posts of one date enumerated before a post of an earlier date, and
\* the snapshot lists the three in that order
C11_Witness ==
    /\ CtxBuilt
    /\ site.order = <<1, 2, 3>>
    /\ \A id \in 1..3 : Dated(id)
    /\ DateOf(1) = 2 /\ DateOf(2) = 2 /\ DateOf(3) = 1
    /\ site.out.val.posts = <<1, 2, 3>>

\* the place of a post in the posts entry of the snapshot
PublishedPlace(id) ==
    CHOOSE i \in 1..Len(site.out.val.posts) : site.out.val.posts[i] = id

\* C12: every post of the posts entry of a snapshot is in the list of at
\* least one category, whatever the metadata of the posts (an explicit, empty
\* list of categories included).
C12_PublishedIsFiled ==
    CtxBuilt =>
        LET pub == site.out.val.posts
            cats == site.out.val.categories
        IN  \A i \in 1..Len(pub) :
               \E c \in DOMAIN cats : Count(cats[c], pub[i]) >= 1

\* C13: in a snapshot, two posts of the list of a category are in the order
\* they have in the posts entry.
C13_CategoryOrder ==
    CtxBuilt =>
        LET cats == site.out.val.categories
        IN  \A c \in DOMAIN cats :
               \A i, j \in 1..Len(cats[c]) :
                  (i < j /\ cats[c][i] # cats[c][j]) =>
                     PublishedPlace(cats[c][i]) < PublishedPlace(cats[c][j])

\* the post declares a date and no categories field
Unfiled(id) == Dated(id) /\ K_categories \notin DOMAIN site.heap0[id]

\* C14: after every build over the same cached pages, the first or a later
\* one, a dated post that declares no categories is listed once under
\* "uncategorized", under no other category, and its cached metadata has
\* categories = ["uncategorized"].
C14_DefaultCategory ==
    CtxBuilt =>
        LET cats == site.out.val.categories
            unc == StrV(T_uncategorized)
        IN  \A id \in SitePosts :
               Unfiled(id) =>
                  /\ unc \in DOMAIN cats
                  /\ Count(cats[unc], id) = 1
                  /\ \A c \in DOMAIN cats \ {unc} : Count(cats[c], id) = 0
                  /\ K_categories \in DOMAIN site.heap[id]
                  /\ site.heap[id][K_categories] = SeqV(<<unc>>)

\* the snapshot was rebuilt over a post without categories and a post that
\* declares one
C14_Witness ==
    /\ CtxBuilt
    /\ site.builds = 2
    /\ \E id \in SitePosts : Unfiled(id)
    /\ C_x \in DOMAIN site.out.val.categories
    /\ site.heap # site.heap0

\* C15: a post that declares no date is neither in the posts entry nor in
\* the list of any category of a snapshot, whatever categories it declares;
\* the collection still holds it.
C15_UndatedLeftOut ==
    CtxBuilt =>
        \A id \in SitePosts :
           ~Dated(id) =>
              /\ Count(site.out.val.posts, id) = 0
              /\ \A c \in DOMAIN site.out.val.categories :
                    Count(site.out.val.categories[c], id) = 0
              /\ \E i \in 1..Len(site.order) : site.order[i] = id

\* a post without a date declares the category a dated post is listed under
C15_Witness ==
    /\ CtxBuilt
    /\ \E id \in SitePosts :
          /\ ~Dated(id)
          /\ K_categories \in DOMAIN site.heap0[id]
          /\ site.heap0[id][K_categories] = SeqV(<<C_x>>)
    /\ C_x \in DOMAIN site.out.val.categories

(***************************************************************************)
(* Properties of the requests (SpecReload)                                 *)
(***************************************************************************)
ContextKeys == {"pages", "posts", "categories"}

\* C16: with requests served concurrently, each reloading and rebuilding,
\* the shared context has its pages, posts and categories entries at every
\* step, and no request that renders finds one of them missing.
C16_NeverPartial ==
    site.phase = "srv" =>
        /\ \A t \in Threads : site.req[t].out.kind # "KeyError"
        /\ (\E t \in Threads : site.req[t].pc = "updated") =>
               ContextKeys \subseteq DOMAIN site.context

\* C20: when the rebuild of a request has failed on a date that is not a
\* date value, the shared context is the snapshot last built successfully.
C20_FailedRebuildKeeps ==
    site.phase = "srv" =>
        \A t \in Threads :
           site.req[t].out.kind = "wrong date format" =>
              /\ ContextKeys \subseteq DOMAIN site.context
              /\ site.context = site.good

(***************************************************************************)
(* Properties of the pages of a listing (SpecPaging)                       *)
(***************************************************************************)
\* the list the listing pages: the posts of its category, or all
ListingHasSource ==
    K_category \in DOMAIN site.meta =>
        site.meta[K_category] \in DOMAIN site.ctx.categories
ListingSource ==
    IF K_category \in DOMAIN site.meta
    THEN site.ctx.categories[site.meta[K_category]]
    ELSE site.ctx.posts

\* the lists of q, one after the other
RECURSIVE Flatten(_)
Flatten(q) == IF q = <<>> THEN <<>> ELSE Head(q) \o Flatten(Tail(q))

\* C19: for a source list of n >= 1 posts and an integer perpage >= 1, the
\* requests for current = 1, 2, ..., total all succeed, every page holds
\* between 1 and perpage posts, every page but the last holds perpage, and
\* the posts of the pages, one page after the other, are the source list.
C19_PagesPartition ==
    (/\ site.phase = "paging"
     /\ ListingHasSource
     /\ Len(ListingSource) >= 1)
    => LET pp == site.meta[K_perpage][2]
           n == Len(ListingSource)
           total == Ceiling(n, pp)
           got == site.got
           all == Flatten(got)
       IN  /\ Len(got) <= total
           /\ site.out.kind \notin {"none", "ok"} => Len(got) = total
           /\ \A i \in 1..Len(got) :
                 /\ Len(got[i]) >= 1 /\ Len(got[i]) <= pp
                 /\ i < total => Len(got[i]) = pp
           /\ Len(all) <= n
           /\ all = SubSeq(ListingSource, 1, Len(all))
           /\ Len(got) = total => all = ListingSource

\* three posts two a page: the reader has the two pages, the last one short
C19_Witness ==
    /\ site.phase = "paging"
    /\ K_category \notin DOMAIN site.meta
    /\ Len(site.ctx.posts) = 3
    /\ site.meta[K_perpage] = IntV(2)
    /\ Len(site.got) = 2
    /\ Len(site.got[1]) = 2 /\ Len(site.got[2]) = 1
    /\ site.got[1] \o site.got[2] = site.ctx.posts
    /\ site.out.kind = E_Current

====
